---- MODULE Spec2Model ----
(***************************************************************************)
(* Model of itunes_albums_to_remove.py: the XML track extractor            *)
(* (Track.from_xml, Library.from_xml) and the album aggregator             *)
(* (Library.to_albums, Album.__init__ and the Album statistics).           *)
(*                                                                         *)
(* Python values are modelled as records of one shape, so that a str, an   *)
(* int and None stay distinguishable: the text "5" is Str(<<"5">>), the    *)
(* integer 5 is IntV(5).  A str is a sequence of one-character strings.    *)
(* An exception is the err field of a result ("ok" when none is raised).   *)
(* A float quotient a / b is kept as the fraction num/den.                 *)
(*                                                                         *)
(* A track node is the sequence of its child elements (the <dict> of a     *)
(* track holds no nested elements), a document is the sequence of track    *)
(* nodes that the XPath of Library.from_xml selects.  Number texts are     *)
(* digit strings, without sign or blanks.                                  *)
(***************************************************************************)
EXTENDS Integers, Sequences, FiniteSets, TLC

VARIABLES doc, pc, library, albums, arg, album, stat

vars == <<doc, pc, library, albums, arg, album, stat>>

(* ------------------------------ bounds -------------------------------- *)

\* longest document of regular track nodes (grouping inputs)
MaxTracks == 3

\* longest document of irregular track nodes (extraction inputs)
MaxNodes == 2

(* --------------------------- Python values ---------------------------- *)

NoneV == [t |-> "none", s |-> <<>>, n |-> 0]

Str(chars) == [t |-> "str", s |-> chars, n |-> 0]

IntV(i) == [t |-> "int", s |-> <<>>, n |-> i]

\* the characters of the model, in code-point order
Alphabet ==
  <<" ", "0", "1", "2", "3", "4", "5", "6", "7", "8", "9",
    "A", "B", "D", "G", "I", "N", "R", "S", "T", "X", "Y", "Z", "_",
    "a", "b", "c", "d", "e", "g", "i", "k", "l", "m", "n", "o", "r",
    "s", "t", "u", "x", "y", "z">>

CharCode(c) == CHOOSE i \in 1..Len(Alphabet) : Alphabet[i] = c

Digits == <<"0", "1", "2", "3", "4", "5", "6", "7", "8", "9">>

IsDigit(c) == \E i \in 1..Len(Digits) : Digits[i] = c

DigitValue(c) == (CHOOSE i \in 1..Len(Digits) : Digits[i] = c) - 1

\* str.lower() on one character
LowerChar(c) ==
  CASE c = "A" -> "a" [] c = "B" -> "b" [] c = "D" -> "d" [] c = "G" -> "g"
    [] c = "I" -> "i" [] c = "N" -> "n" [] c = "R" -> "r" [] c = "S" -> "s"
    [] c = "T" -> "t" [] c = "X" -> "x" [] c = "Y" -> "y" [] c = "Z" -> "z"
    [] OTHER -> c

\* title_case_str.lower().replace(" ", "_")
snake_case(chars) ==
  [i \in 1..Len(chars) |->
     IF LowerChar(chars[i]) = " " THEN "_" ELSE LowerChar(chars[i])]

RECURSIVE DigitsValue(_)
DigitsValue(chars) ==
  IF chars = <<>> THEN 0
  ELSE DigitsValue(SubSeq(chars, 1, Len(chars) - 1)) * 10
       + DigitValue(chars[Len(chars)])

\* int(x): [err, n]
IntOf(v) ==
  CASE v.t = "int" -> [err |-> "ok", n |-> v.n]
    [] v.t = "none" -> [err |-> "TypeError", n |-> 0]
    [] OTHER ->
         IF v.s # <<>> /\ \A i \in 1..Len(v.s) : IsDigit(v.s[i])
         THEN [err |-> "ok", n |-> DigitsValue(v.s)]
         ELSE [err |-> "ValueError", n |-> 0]

\* a plausible slip: the percentage is returned undivided
star_rating_undivided(percent_rating) ==
  IF percent_rating.t # "none" THEN IntOf(percent_rating)
  ELSE [err |-> "ok", n |-> 0]

\* int(percent_rating) // 20 if percent_rating is not None else 0
star_rating(percent_rating) ==
  IF percent_rating.t # "none"
  THEN LET i == IntOf(percent_rating)
       IN  [err |-> i.err, n |-> i.n \div 20]
  ELSE [err |-> "ok", n |-> 0]

(* ------------------------------ Track --------------------------------- *)

K_track_id == <<"t", "r", "a", "c", "k", "_", "i", "d">>
K_name == <<"n", "a", "m", "e">>
K_artist == <<"a", "r", "t", "i", "s", "t">>
K_album == <<"a", "l", "b", "u", "m">>
K_rating == <<"r", "a", "t", "i", "n", "g">>
K_track_number ==
  <<"t", "r", "a", "c", "k", "_", "n", "u", "m", "b", "e", "r">>
K_year == <<"y", "e", "a", "r">>
K_file_size == <<"f", "i", "l", "e", "_", "s", "i", "z", "e">>
K_time == <<"t", "i", "m", "e">>
K_total_time == <<"t", "o", "t", "a", "l", "_", "t", "i", "m", "e">>
K_size == <<"s", "i", "z", "e">>

\* inspect.signature(cls).parameters: the fields of the dataclass
dataclass_params ==
  {K_track_id, K_name, K_artist, K_album, K_rating, K_track_number,
   K_year, K_file_size, K_time}

\* the declared default of a field (the required ones have none)
FieldDefault(k) ==
  CASE k = K_artist -> Str(<<>>)
    [] k = K_album -> Str(<<>>)
    [] k = K_rating -> IntV(0)
    [] k = K_file_size -> IntV(0)
    [] k = K_time -> IntV(0)
    [] OTHER -> NoneV

NoTrack ==
  [track_id |-> NoneV, name |-> NoneV, artist |-> NoneV, album |-> NoneV,
   rating |-> NoneV, track_number |-> NoneV, year |-> NoneV,
   file_size |-> NoneV, time |-> NoneV]

\* d[k] = v
DictPut(d, k, v) ==
  [x \in (DOMAIN d) \cup {k} |-> IF x = k THEN v ELSE d[x]]

\* del d[k]
DictDel(d, k) == [x \in (DOMAIN d) \ {k} |-> d[x]]

\* the loop over track_xml.iter(): every key element stores the text of
\* its next sibling under its snake-cased text
RECURSIVE BuildDict(_, _, _)
BuildDict(track_xml, i, d) ==
  IF i > Len(track_xml) THEN [err |-> "ok", d |-> d]
  ELSE IF track_xml[i].tag # "key" THEN BuildDict(track_xml, i + 1, d)
  ELSE IF i = Len(track_xml) THEN [err |-> "StopIteration", d |-> d]
  ELSE IF track_xml[i].text.t = "none"
       THEN [err |-> "AttributeError", d |-> d]
  ELSE BuildDict(track_xml, i + 1,
                 DictPut(d, snake_case(track_xml[i].text.s),
                         track_xml[i + 1].text))

\* cls(**d): the fields given, the declared defaults for the others
MakeTrack(d) ==
  LET f(k) == IF k \in DOMAIN d THEN d[k] ELSE FieldDefault(k)
  IN  [track_id |-> f(K_track_id), name |-> f(K_name),
       artist |-> f(K_artist), album |-> f(K_album),
       rating |-> f(K_rating), track_number |-> f(K_track_number),
       year |-> f(K_year), file_size |-> f(K_file_size),
       time |-> f(K_time)]

\* Track.from_xml: [err, track]
TrackFromXml(track_xml) ==
  LET b == BuildDict(track_xml, 1, [x \in {} |-> NoneV])
      fail(e) == [err |-> e, track |-> NoTrack]
  IN
  IF b.err # "ok" THEN fail(b.err)
  ELSE
  LET r == IF K_rating \in DOMAIN b.d THEN star_rating(b.d[K_rating])
           ELSE [err |-> "ok", n |-> 0]
  IN
  IF r.err # "ok" THEN fail(r.err)
  ELSE
  LET d1 == IF K_rating \in DOMAIN b.d
            THEN DictPut(b.d, K_rating, IntV(r.n)) ELSE b.d
      d2 == IF K_total_time \in DOMAIN d1
            THEN DictPut(DictDel(d1, K_total_time), K_time, d1[K_total_time])
            ELSE d1
      z == IF K_size \in DOMAIN d2 THEN IntOf(d2[K_size])
           ELSE [err |-> "ok", n |-> 0]
  IN
  IF z.err # "ok" THEN fail(z.err)
  ELSE
  LET d3 == IF K_size \in DOMAIN d2
            THEN DictPut(DictDel(d2, K_size), K_file_size, IntV(z.n))
            ELSE d2
      d4 == [k \in (DOMAIN d3) \cap dataclass_params |-> d3[k]]
  IN
  IF K_track_id \notin DOMAIN d4 \/ K_name \notin DOMAIN d4
  THEN fail("TypeError")
  ELSE [err |-> "ok", track |-> MakeTrack(d4)]

(* ----------------------------- Library -------------------------------- *)

\* a plausible slip: a node that fails to parse is skipped
RECURSIVE ParseTracksSkipping(_, _, _)
ParseTracksSkipping(tracks_root, i, acc) ==
  IF i > Len(tracks_root) THEN [err |-> "ok", tracks |-> acc]
  ELSE LET r == TrackFromXml(tracks_root[i])
       IN  ParseTracksSkipping(tracks_root, i + 1,
             IF r.err # "ok" THEN acc ELSE Append(acc, r.track))

\* [Track.from_xml(track_xml) for track_xml in tracks_root]: the first
\* exception ends the comprehension and no list is produced
RECURSIVE ParseTracks(_, _, _)
ParseTracks(tracks_root, i, acc) ==
  IF i > Len(tracks_root) THEN [err |-> "ok", tracks |-> acc]
  ELSE LET r == TrackFromXml(tracks_root[i])
       IN  IF r.err # "ok" THEN [err |-> r.err, tracks |-> <<>>]
           ELSE ParseTracks(tracks_root, i + 1, Append(acc, r.track))

\* sum(t.time for t in self.tracks): 0 + str and 0 + None raise TypeError
TotalTimeOf(tracks) ==
  LET RECURSIVE Sum(_)
      Sum(i) == IF i = 0 THEN 0 ELSE Sum(i - 1) + tracks[i].time.n
  IN  IF \E i \in 1..Len(tracks) : tracks[i].time.t # "int"
      THEN [name |-> "total_time", err |-> "TypeError", num |-> 0, den |-> 1]
      ELSE [name |-> "total_time", err |-> "ok", num |-> Sum(Len(tracks)),
            den |-> 1]

(* ------------------------------ Album --------------------------------- *)

NoAlbum ==
  [err |-> "unset", tracks |-> <<>>, name |-> NoneV, artists |-> <<>>,
   ratings |-> <<>>]

\* a plausible slip: the validation is left out
SameAlbumUnchecked(tracks) == TRUE

\* all(track.album == tracks[0].album for track in tracks); tracks[0] is
\* evaluated only when there is a track
SameAlbum(tracks) ==
  \A i \in 1..Len(tracks) : tracks[i].album = tracks[1].album

\* str < str, by code points
RECURSIVE StrLess(_, _)
StrLess(a, b) ==
  IF a = <<>> THEN b # <<>>
  ELSE IF b = <<>> THEN FALSE
  ELSE IF a[1] = b[1] THEN StrLess(Tail(a), Tail(b))
  ELSE CharCode(a[1]) < CharCode(b[1])

\* sorted(list(S)) for a set S of str and None: [err, list]; ordering None
\* against a str raises TypeError
RECURSIVE SortedList(_)
SortedList(S) ==
  IF S = {} THEN <<>>
  ELSE LET m == CHOOSE x \in S : \A y \in S \ {x} : StrLess(x.s, y.s)
       IN  <<m>> \o SortedList(S \ {m})

Sorted(S) ==
  IF Cardinality(S) > 1 /\ \E x \in S : x.t = "none"
  THEN [err |-> "TypeError", list |-> <<>>]
  ELSE [err |-> "ok", list |-> SortedList(S)]

\* a plausible slip: the artists are listed track by track
AlbumArtistsPerTrack(tracks) ==
  [err |-> "ok", list |-> [i \in 1..Len(tracks) |-> tracks[i].artist]]

\* sorted(list(set(t.artist for t in tracks)))
AlbumArtists(tracks) ==
  Sorted({tracks[i].artist : i \in 1..Len(tracks)})

\* Album.__init__: [err, tracks, name, artists, ratings]
AlbumInit(tracks) ==
  LET fail(e) == [NoAlbum EXCEPT !.err = e]
  IN
  IF ~SameAlbum(tracks) THEN fail("ValueError")
  ELSE IF tracks = <<>> THEN fail("IndexError")
  ELSE LET a == AlbumArtists(tracks)
       IN  IF a.err # "ok" THEN fail(a.err)
           ELSE [err |-> "ok", tracks |-> tracks, name |-> tracks[1].album,
                 artists |-> a.list,
                 ratings |-> [i \in 1..Len(tracks) |-> tracks[i].rating]]

\* min(self._ratings)
min_rating(a) ==
  IF a.ratings = <<>>
  THEN [name |-> "min_rating", err |-> "ValueError", num |-> 0, den |-> 1]
  ELSE [name |-> "min_rating", err |-> "ok",
        num |-> CHOOSE m \in {a.ratings[i].n : i \in 1..Len(a.ratings)} :
                  \A i \in 1..Len(a.ratings) : m <= a.ratings[i].n,
        den |-> 1]

\* max(self._ratings)
max_rating(a) ==
  IF a.ratings = <<>>
  THEN [name |-> "max_rating", err |-> "ValueError", num |-> 0, den |-> 1]
  ELSE [name |-> "max_rating", err |-> "ok",
        num |-> CHOOSE m \in {a.ratings[i].n : i \in 1..Len(a.ratings)} :
                  \A i \in 1..Len(a.ratings) : m >= a.ratings[i].n,
        den |-> 1]

\* sum(self._ratings) / len(self._ratings), kept as the fraction num/den
avg_rating(a) ==
  LET RECURSIVE Sum(_)
      Sum(i) == IF i = 0 THEN 0 ELSE Sum(i - 1) + a.ratings[i].n
  IN  IF a.ratings = <<>>
      THEN [name |-> "avg_rating", err |-> "ZeroDivisionError", num |-> 0,
            den |-> 1]
      ELSE [name |-> "avg_rating", err |-> "ok",
            num |-> Sum(Len(a.ratings)), den |-> Len(a.ratings)]

\* a plausible slip: r >= 0 in place of r > 0
NonZeroOrZero(r) == r.t # "none" /\ r.n >= 0

\* r is not None and r > 0
NonZero(r) == r.t # "none" /\ r.n > 0

\* len(non_zero_ratings) / len(self.tracks), kept as the fraction num/den
percent_rated(a) ==
  IF a.tracks = <<>>
  THEN [name |-> "percent_rated", err |-> "ZeroDivisionError", num |-> 0,
        den |-> 1]
  ELSE [name |-> "percent_rated", err |-> "ok",
        num |-> Cardinality({i \in 1..Len(a.ratings) : NonZero(a.ratings[i])}),
        den |-> Len(a.tracks)]

(* ------------------------- Library.to_albums -------------------------- *)

\* a plausible slip: the year is left out of the key
AlbumKeyNameOnly(t) == <<t.album, NoneV>>

\* album_key = (t.album, t.year)
AlbumKey(t) == <<t.album, t.year>>

\* album_tracks_dict is an insertion-ordered dict: a sequence of
\* [key, tracks] entries with distinct keys
HasKey(d, k) == \E i \in 1..Len(d) : d[i].key = k

\* if album_key not in album_tracks_dict: album_tracks_dict[album_key] = []
DictSetDefault(d, k) ==
  IF HasKey(d, k) THEN d ELSE Append(d, [key |-> k, tracks |-> <<>>])

\* a plausible slip: the list of the key is replaced instead of extended
DictAssign(d, k, t) ==
  [i \in 1..Len(d) |->
     IF d[i].key = k THEN [d[i] EXCEPT !.tracks = <<t>>] ELSE d[i]]

\* a plausible slip: the track is put at the head of the list
DictPrepend(d, k, t) ==
  [i \in 1..Len(d) |->
     IF d[i].key = k THEN [d[i] EXCEPT !.tracks = <<t>> \o @] ELSE d[i]]

\* album_tracks_dict[album_key].append(t)
DictAppend(d, k, t) ==
  [i \in 1..Len(d) |->
     IF d[i].key = k THEN [d[i] EXCEPT !.tracks = Append(@, t)] ELSE d[i]]

\* for t in self.tracks: ...
RECURSIVE GroupTracks(_, _, _)
GroupTracks(tracks, i, d) ==
  IF i > Len(tracks) THEN d
  ELSE GroupTracks(tracks, i + 1,
         DictAppend(DictSetDefault(d, AlbumKey(tracks[i])),
                    AlbumKey(tracks[i]), tracks[i]))

\* [Album(tracks) for tracks in album_tracks_dict.values()]
RECURSIVE BuildAlbums(_, _, _)
BuildAlbums(d, i, acc) ==
  IF i > Len(d) THEN [err |-> "ok", albums |-> acc]
  ELSE LET a == AlbumInit(d[i].tracks)
       IN  IF a.err # "ok" THEN [err |-> a.err, albums |-> <<>>]
           ELSE BuildAlbums(d, i + 1, Append(acc, a))

\* Library.to_albums: [err, albums]
to_albums(tracks) == BuildAlbums(GroupTracks(tracks, 1, <<>>), 1, <<>>)

(* ------------------------------ inputs -------------------------------- *)

\* elements of a track node: <key>text</key>, <integer>text</integer>,
\* <string>text</string>; an element without text has text None
Key(chars) == [tag |-> "key", text |-> Str(chars)]
Integer(chars) == [tag |-> "integer", text |-> Str(chars)]
String(chars) == [tag |-> "string", text |-> Str(chars)]
EmptyElement(tag) == [tag |-> tag, text |-> NoneV]

F_TrackID == <<"T", "r", "a", "c", "k", " ", "I", "D">>
F_Name == <<"N", "a", "m", "e">>
F_Artist == <<"A", "r", "t", "i", "s", "t">>
F_Album == <<"A", "l", "b", "u", "m">>
F_Rating == <<"R", "a", "t", "i", "n", "g">>
F_TotalTime == <<"T", "o", "t", "a", "l", " ", "T", "i", "m", "e">>
F_Size == <<"S", "i", "z", "e">>
F_Year == <<"Y", "e", "a", "r">>
F_Genre == <<"G", "e", "n", "r", "e">>

Absent == <<"absent">>
Empty == <<"empty">>

\* a key/value pair, no pair (Absent) or a key with an empty value (Empty)
Pair(name, tag, chars) ==
  IF chars = Absent THEN <<>>
  ELSE IF chars = Empty THEN <<Key(name), EmptyElement(tag)>>
  ELSE <<Key(name), [tag |-> tag, text |-> Str(chars)]>>

\* the track node of the round-trip example, with the Rating given
ExampleNode(rating) ==
  Pair(F_TrackID, "integer", <<"5">>) \o Pair(F_Name, "string", <<"X">>)
  \o Pair(F_Artist, "string", <<"Y">>) \o Pair(F_Album, "string", <<"Z">>)
  \o Pair(F_Rating, "integer", rating)
  \o Pair(F_TotalTime, "integer", <<"2", "0", "0", "0">>)
  \o Pair(F_Size, "integer", <<"5", "0", "0">>)

Percentages ==
  {<<"0">>, <<"2", "0">>, <<"4", "0">>, <<"6", "0">>, <<"8", "0">>,
   <<"1", "0", "0">>}

\* track nodes as the library file has them: the n-th track of the file,
\* of an album and year; an unrated track has no Rating field
RegularNode(n, name, year, artist, rating) ==
  Pair(F_TrackID, "integer", <<Digits[n + 1]>>)
  \o Pair(F_Name, "string", <<"X">>)
  \o Pair(F_Artist, "string", artist) \o Pair(F_Album, "string", name)
  \o Pair(F_Year, "integer", year) \o Pair(F_Rating, "integer", rating)
  \o Pair(F_Size, "integer", <<"5", "0", "0">>)

Profiles ==
  {<<name, year, ar[1], ar[2]>> :
     name \in {<<"A">>, <<"B">>},
     year \in {Absent, <<"1", "9", "9", "9">>},
     ar \in {<<<<"Z">>, Absent>>, <<<<"Y">>, <<"6", "0">>>>}}

RegularDocs ==
  UNION {{[n \in 1..len |->
            RegularNode(n, ps[n][1], ps[n][2], ps[n][3], ps[n][4])] :
            ps \in [1..len -> Profiles]} : len \in 0..MaxTracks}

\* track nodes off the regular shape
IrregularNodes ==
  {ExampleNode(r) : r \in Percentages \cup {Absent, Empty, <<"X">>}}
  \cup
  { \* the last key has no value element after it
    Pair(F_TrackID, "integer", <<"6">>) \o Pair(F_Name, "string", <<"X">>)
      \o <<Key(F_Album)>>,
    \* a key is followed by another key
    Pair(F_TrackID, "integer", <<"6">>) \o Pair(F_Name, "string", <<"X">>)
      \o <<Key(F_Artist)>> \o Pair(F_Album, "string", <<"Z">>),
    \* no Track ID
    Pair(F_Name, "string", <<"X">>) \o Pair(F_Album, "string", <<"Z">>),
    \* a Size that is no number, and an empty one
    Pair(F_TrackID, "integer", <<"7">>) \o Pair(F_Name, "string", <<"X">>)
      \o Pair(F_Size, "integer", <<"X">>),
    Pair(F_TrackID, "integer", <<"7">>) \o Pair(F_Name, "string", <<"X">>)
      \o Pair(F_Size, "integer", Empty),
    \* an empty Artist element
    Pair(F_TrackID, "integer", <<"8">>) \o Pair(F_Name, "string", <<"X">>)
      \o Pair(F_Artist, "string", Empty) \o Pair(F_Album, "string", <<"Z">>),
    \* the required fields and a field the Track does not have
    Pair(F_TrackID, "integer", <<"9">>) \o Pair(F_Name, "string", <<"X">>)
      \o Pair(F_Genre, "string", <<"G">>),
    \* a key element without text
    Pair(F_TrackID, "integer", <<"9">>) \o Pair(F_Name, "string", <<"X">>)
      \o <<EmptyElement("key"), String(<<"G">>)>> }

IrregularDocs ==
  UNION {[1..len -> IrregularNodes] : len \in 1..MaxNodes}

(* --------------------------- state machine ---------------------------- *)

NoLibrary == [err |-> "unset", tracks |-> <<>>]
NoAlbums == [err |-> "unset", albums |-> <<>>]
NoStat == [name |-> "none", err |-> "unset", num |-> 0, den |-> 1]

\* doc is root.xpath("//dict/dict/dict"): the track nodes in document order
Init ==
  /\ doc \in RegularDocs \cup IrregularDocs
  /\ pc = "start"
  /\ library = NoLibrary
  /\ albums = NoAlbums
  /\ arg = <<>>
  /\ album = NoAlbum
  /\ stat = NoStat

\* library = Library.from_xml(path)
LibraryFromXml ==
  /\ pc = "start"
  /\ library' = ParseTracks(doc, 1, <<>>)
  /\ pc' = "library"
  /\ UNCHANGED <<doc, albums, arg, album, stat>>

\* library.total_time
TotalTime ==
  /\ pc = "library" /\ library.err = "ok"
  /\ stat' = TotalTimeOf(library.tracks)
  /\ pc' = "stat"
  /\ UNCHANGED <<doc, library, albums, arg, album>>

\* albums = library.to_albums()
ToAlbums ==
  /\ pc = "library" /\ library.err = "ok"
  /\ albums' = to_albums(library.tracks)
  /\ pc' = "albums"
  /\ UNCHANGED <<doc, library, arg, album, stat>>

\* Album(library[i:j]): an Album built by a caller from a slice
NewAlbum ==
  /\ pc = "library" /\ library.err = "ok"
  /\ \E i \in 1..Len(library.tracks) + 1 :
       \E j \in i - 1..Len(library.tracks) :
         /\ arg' = SubSeq(library.tracks, i, j)
         /\ album' = AlbumInit(SubSeq(library.tracks, i, j))
  /\ pc' = "album"
  /\ UNCHANGED <<doc, library, albums, stat>>

\* for album in albums: one of the Albums to_albums() built
PickAlbum ==
  /\ pc = "albums" /\ albums.err = "ok"
  /\ \E k \in 1..Len(albums.albums) :
       /\ arg' = albums.albums[k].tracks
       /\ album' = albums.albums[k]
  /\ pc' = "album"
  /\ UNCHANGED <<doc, library, albums, stat>>

Property(value) ==
  /\ pc = "album" /\ album.err = "ok"
  /\ stat' = value
  /\ pc' = "stat"
  /\ UNCHANGED <<doc, library, albums, arg, album>>

MinRating == Property(min_rating(album))

MaxRating == Property(max_rating(album))

AvgRating == Property(avg_rating(album))

PercentRated == Property(percent_rated(album))

Next ==
  \/ LibraryFromXml
  \/ TotalTime
  \/ ToAlbums
  \/ NewAlbum
  \/ PickAlbum
  \/ MinRating
  \/ MaxRating
  \/ AvgRating
  \/ PercentRated

Spec == Init /\ [][Next]_vars

(* ------------------------------ claims -------------------------------- *)

Range(seq) == {seq[i] : i \in 1..Len(seq)}

Count(seq, x) == Cardinality({i \in 1..Len(seq) : seq[i] = x})

\* the tracks are Tracks as declared: artist is a str
StrArtists(tracks) == \A i \in 1..Len(tracks) : tracks[i].artist.t = "str"

\* same album name and same year (an absent year only equals an absent one)
SameGroup(t, u) == t.album = u.album /\ t.year = u.year

FirstPos(t) ==
  CHOOSE i \in 1..Len(library.tracks) :
    /\ SameGroup(library.tracks[i], t)
    /\ \A j \in 1..i - 1 : ~SameGroup(library.tracks[j], t)

RECURSIVE SumLen(_, _)
SumLen(as, k) == IF k = 0 THEN 0 ELSE SumLen(as, k - 1) + Len(as[k].tracks)

\* C1: to_albums() returns Albums that partition library.tracks: every
\* Track of the library is in exactly one Album, as often as the library
\* holds it, no Album holds a Track the library lacks, and the Album sizes
\* add up to len(library.tracks).  It returns for every library of Tracks
\* whose artist is a str.
C1_Partition ==
  LET L == library.tracks
      A == albums.albums
  IN  albums.err # "unset" =>
        /\ StrArtists(L) => albums.err = "ok"
        /\ albums.err = "ok" =>
             /\ \A t \in Range(L) :
                  \E k \in 1..Len(A) :
                    /\ Count(A[k].tracks, t) = Count(L, t)
                    /\ \A l \in 1..Len(A) : l # k => Count(A[l].tracks, t) = 0
             /\ \A k \in 1..Len(A) : Range(A[k].tracks) \subseteq Range(L)
             /\ SumLen(A, Len(A)) = Len(L)

\* C1 witness: three tracks, one without a year, grouped into two Albums
C1_Witness ==
  /\ albums.err = "ok" /\ Len(library.tracks) = 3 /\ Len(albums.albums) = 2
  /\ \E i \in 1..3 : library.tracks[i].year = NoneV
  /\ Len(albums.albums[1].tracks) = 2

\* C2: the Albums come in the order in which their keys first occur in
\* library.tracks, and each Album holds the tracks of its key in the order
\* of library.tracks.
C2_StableGrouping ==
  LET L == library.tracks
      A == albums.albums
  IN  albums.err = "ok" =>
        /\ \A k \in 1..Len(A) :
             LET InGroup(t) == SameGroup(t, A[k].tracks[1])
             IN  A[k].tracks = SelectSeq(L, InGroup)
        /\ \A k \in 1..Len(A) : \A l \in k + 1..Len(A) :
             FirstPos(A[k].tracks[1]) < FirstPos(A[l].tracks[1])

\* C2 witness: album "B" is seen first and so comes first, and its tracks
\* are the first and the third of the library
C2_Witness ==
  /\ albums.err = "ok" /\ Len(library.tracks) = 3 /\ Len(albums.albums) = 2
  /\ albums.albums[1].name = Str(<<"B">>)
  /\ albums.albums[2].name = Str(<<"A">>)
  /\ albums.albums[1].tracks = <<library.tracks[1], library.tracks[3]>>
  /\ library.tracks[1] # library.tracks[3]

Heterogeneous(tracks) ==
  \E i, j \in 1..Len(tracks) : tracks[i].album # tracks[j].album

\* C3: Album(tracks) with tracks of differing album names raises ValueError
\* and builds nothing; with one or more tracks (artist a str) that share
\* one album name it succeeds and Album.name is that name.
C3_AlbumValidation ==
  pc = "album" =>
    /\ Heterogeneous(arg) => album = [NoAlbum EXCEPT !.err = "ValueError"]
    /\ (arg # <<>> /\ ~Heterogeneous(arg) /\ StrArtists(arg)) =>
         /\ album.err = "ok"
         /\ album.name = arg[1].album
         /\ album.tracks = arg
         /\ \A i \in 1..Len(arg) : arg[i].album = album.name

\* C3 witness: a slice of three tracks, the last of another album
C3_Witness ==
  /\ pc = "album" /\ Len(arg) = 3
  /\ arg[1].album = arg[2].album /\ arg[3].album # arg[1].album
  /\ album.err = "ValueError"

\* C4: an Album of zero tracks is rejected by the explicit validation error
\* of Album (the one error Album raises by itself is ValueError), not by an
\* unrelated exception.
C4_EmptyAlbumRejected ==
  (pc = "album" /\ arg = <<>>) => album.err = "ValueError"

RatingField(node) ==
  IF \E i \in 1..Len(node) - 1 : node[i] = Key(F_Rating)
  THEN node[(CHOOSE i \in 1..Len(node) - 1 :
               /\ node[i] = Key(F_Rating)
               /\ \A j \in i + 1..Len(node) - 1 : node[j] # Key(F_Rating)) + 1]
         .text
  ELSE Str(Absent)

\* p / 20 for the six percentages
Stars(text) ==
  CASE text = Str(<<"0">>) -> 0
    [] text = Str(<<"2", "0">>) -> 1
    [] text = Str(<<"4", "0">>) -> 2
    [] text = Str(<<"6", "0">>) -> 3
    [] text = Str(<<"8", "0">>) -> 4
    [] text = Str(<<"1", "0", "0">>) -> 5
    [] OTHER -> 0

\* C5: a Track built from a node whose Rating is one of the percentages p
\* has the integer rating p / 20; a Rating without a value or no Rating at
\* all gives 0; the rating is an int in 0..5.
C5_StarRating ==
  library.err = "ok" =>
    \A i \in 1..Len(doc) :
      LET text == RatingField(doc[i])
      IN  (text.s \in Percentages \/ text = NoneV \/ text = Str(Absent)) =>
            /\ library.tracks[i].rating = IntV(Stars(text))
            /\ library.tracks[i].rating.n \in 0..5

\* C5 witness: a Rating of 100 gives 5 stars, a Rating without value gives 0
C5_Witness ==
  /\ library.err = "ok" /\ Len(doc) = 2
  /\ RatingField(doc[1]) = Str(<<"1", "0", "0">>)
  /\ library.tracks[1].rating = IntV(5)
  /\ RatingField(doc[2]) = NoneV
  /\ library.tracks[2].rating = IntV(0)

\* C6: the example node {Track ID: "5", Name: "X", Artist: "Y", Album: "Z",
\* Rating: "60", Total Time: "2000", Size: "500"} yields Track(track_id=5,
\* name="X", artist="Y", album="Z", rating=3, time=2000, file_size=500),
\* with track_id, time and file_size integers.
C6_ExampleTrack ==
  library.err = "ok" =>
    \A i \in 1..Len(doc) :
      doc[i] = ExampleNode(<<"6", "0">>) =>
        library.tracks[i] =
          [track_id |-> IntV(5), name |-> Str(<<"X">>),
           artist |-> Str(<<"Y">>), album |-> Str(<<"Z">>),
           rating |-> IntV(3), track_number |-> NoneV, year |-> NoneV,
           file_size |-> IntV(500), time |-> IntV(2000)]

Rated(tracks) == {i \in 1..Len(tracks) : tracks[i].rating.n > 0}

\* C7: percent_rated of an Album is (tracks with rating > 0) / (tracks): it
\* is defined for every Album built, lies in [0, 1], is 1 exactly when all
\* tracks have rating > 0 and 0 exactly when all have rating 0.
C7_PercentRated ==
  (pc = "stat" /\ stat.name = "percent_rated") =>
    /\ stat.err = "ok"
    /\ stat.den = Len(album.tracks) /\ stat.den > 0
    /\ stat.num = Cardinality(Rated(album.tracks))
    /\ 0 <= stat.num /\ stat.num <= stat.den
    /\ stat.num = stat.den <=>
         \A i \in 1..Len(album.tracks) : album.tracks[i].rating.n > 0
    /\ stat.num = 0 <=>
         \A i \in 1..Len(album.tracks) : album.tracks[i].rating.n = 0

\* C7 witness: an Album of three tracks, one of them rated
C7_Witness ==
  /\ pc = "stat" /\ stat.name = "percent_rated"
  /\ stat.num = 1 /\ stat.den = 3

\* C8: Album.artists is strictly ascending and its elements are exactly the
\* artist names of the member tracks.
C8_Artists ==
  album.err = "ok" =>
    /\ \A i \in 1..Len(album.artists) - 1 :
         StrLess(album.artists[i].s, album.artists[i + 1].s)
    /\ Range(album.artists) = {album.tracks[i].artist :
                                 i \in 1..Len(album.tracks)}

\* C8 witness: the artists of the tracks are Z, Y, Z; Album.artists is Y, Z
C8_Witness ==
  /\ album.err = "ok" /\ Len(album.tracks) = 3
  /\ album.tracks[1].artist = Str(<<"Z">>)
  /\ album.tracks[2].artist = Str(<<"Y">>)
  /\ album.tracks[3].artist = Str(<<"Z">>)
  /\ album.artists = <<Str(<<"Y">>), Str(<<"Z">>)>>

\* C9: two tracks are in the same Album of to_albums() exactly when they
\* have the same album name and the same year; every Album is non-empty
\* and of one album name; to_albums() never fails the validation of Album.
C9_GroupingKey ==
  LET A == albums.albums
  IN  albums.err # "unset" =>
        /\ albums.err \notin {"ValueError", "IndexError"}
        /\ albums.err = "ok" =>
             /\ \A k \in 1..Len(A) :
                  /\ A[k].tracks # <<>>
                  /\ ~Heterogeneous(A[k].tracks)
             /\ \A k, l \in 1..Len(A) :
                  \A i \in 1..Len(A[k].tracks) : \A j \in 1..Len(A[l].tracks) :
                    k = l <=> SameGroup(A[k].tracks[i], A[l].tracks[j])

\* C9 witness: two artists share an Album of one name and year; a track of
\* the same name without a year is in another Album
C9_Witness ==
  /\ albums.err = "ok" /\ Len(albums.albums) = 2
  /\ Len(albums.albums[1].tracks) = 2
  /\ albums.albums[1].tracks[1].artist # albums.albums[1].tracks[2].artist
  /\ albums.albums[2].name = albums.albums[1].name
  /\ albums.albums[2].tracks[1].year # albums.albums[1].tracks[1].year

\* a key element that is the last element of its node has no value
Dangling(node) == node # <<>> /\ node[Len(node)].tag = "key"

FieldText(node, name) ==
  node[(CHOOSE i \in 1..Len(node) - 1 : node[i] = Key(name)) + 1].text

HasField(node, name) ==
  \E i \in 1..Len(node) - 1 : node[i] = Key(name) /\ i % 2 = 1

IsNumber(text) ==
  text.t = "str" /\ text.s # <<>> /\ \A i \in 1..Len(text.s) : IsDigit(text.s[i])

\* key and value elements alternate, Track ID and Name are there, Rating
\* is a number or empty and Size is a number
WellFormed(node) ==
  /\ Len(node) % 2 = 0
  /\ \A i \in 1..Len(node) :
       IF i % 2 = 1 THEN node[i].tag = "key" /\ node[i].text.t = "str"
       ELSE node[i].tag # "key"
  /\ HasField(node, F_TrackID) /\ HasField(node, F_Name)
  /\ HasField(node, F_Rating) =>
       IsNumber(FieldText(node, F_Rating)) \/ FieldText(node, F_Rating) = NoneV
  /\ HasField(node, F_Size) => IsNumber(FieldText(node, F_Size))

\* C10: Library.from_xml is all or nothing: with a key without value in
\* any track node it raises and returns no Track; with every track node
\* well-formed it returns one Track per track node, in document order.
C10_AllOrNothing ==
  library.err # "unset" =>
    /\ (\E i \in 1..Len(doc) : Dangling(doc[i])) =>
         library.err # "ok" /\ library.tracks = <<>>
    /\ (\A i \in 1..Len(doc) : WellFormed(doc[i])) =>
         /\ library.err = "ok"
         /\ Len(library.tracks) = Len(doc)
         /\ \A i \in 1..Len(doc) :
              library.tracks[i].track_id = FieldText(doc[i], F_TrackID)

\* C10 witness: a well-formed node followed by one whose last key has no
\* value: StopIteration, and the first node's Track is not returned
C10_Witness ==
  /\ Len(doc) = 2 /\ WellFormed(doc[1]) /\ Dangling(doc[2])
  /\ library.err = "StopIteration" /\ library.tracks = <<>>

====
